---- MODULE Spec2Model ----
(***************************************************************************)
(* Model of baserow-splitter.py: one source (primary) table whose rows are *)
(* mirrored into per-label target tables by sync_database, driven by the   *)
(* endless loop of __main__.  Every remote call made through make_request  *)
(* either succeeds or fails; a failure raises and leaves sync_database.    *)
(*                                                                         *)
(* Environment of Spec: the primary table is always listed and has no      *)
(* tracker field; the prefix is not set, so target tables are named after  *)
(* the primary table; the tracker column is not one of the cloned columns; *)
(* the source is edited only between cycles, the target tables only by the *)
(* cycles (apart from a hand-made untracked row that may be there at the   *)
(* start).                                                                 *)
(*                                                                         *)
(* Further specifications over the same actions: SpecLive (the loop        *)
(* without an end, under weak fairness of the process), SpecPayload (the   *)
(* payload of one row), SpecFilter (row_passes_filters on its own),        *)
(* SpecOrder (one cycle with the labels in every order, against a service  *)
(* that refuses some tables) and SpecAlias (a prefix that is set, with     *)
(* which a label can resolve to the primary table).                        *)
(***************************************************************************)
EXTENDS Integers, Sequences, FiniteSets, TLC

\* ---------------------------------------------------------------- bounds
MaxCycles == 2          \* cycles of the __main__ loop that are explored

\* ------------------------------------------------------- configuration
Labels == {"A", "B"}               \* option labels of the multi-select column
SrcIds == {1, 2}                   \* row ids the source table may hold
PRIMARY_TABLE_ID == "P"
Tables == Labels \cup {PRIMARY_TABLE_ID}   \* table ids; a label's table has the label as id
PrimaryName == "Src"
PRIMARY_ID_COLUMN_NAME == "origin"
CloneName == "color"               \* name of the one column in CLONE_COLUMNS
\* ROW_FILTERS.items(): the rules in the order of the configuration
ROW_FILTERS == <<[field_key |-> "flt", allowed_values |-> {"Yes"}]>>

None == "<None>"                   \* Python's None where a string may stand
Truthy(v) == v \notin {None, ""}

\* ----------------------------------------------------------- cell values
\* a cell is absent, a scalar, a select dict {"value": l} or a list whose
\* elements are select dicts or bare strings
NoCell == [tag |-> "none"]
Scalar(s) == [tag |-> "scalar", s |-> s]
Num(n) == [tag |-> "num", n |-> n]
Dict(l) == [tag |-> "dict", value |-> l]
Bare(l) == [tag |-> "bare", s |-> l]
List(items) == [tag |-> "list", items |-> items]

Digit(d) == <<"0", "1", "2", "3", "4", "5", "6", "7", "8", "9">>[d + 1]

RECURSIVE Str(_)
Str(n) == IF n < 10 THEN Digit(n) ELSE Str(n \div 10) \o Digit(n % 10)

\* i['value'] if isinstance(i, dict) else i
ItemLabel(i) == IF i.tag = "dict" THEN i.value ELSE i.s

\* ------------------------------------------------------------- variables
VARIABLES
    SECONDARY_COLUMN_PREFIX,  \* the configured prefix; "" when it is not set
    src,            \* source table: row id -> row, or NoRow
    schema,         \* table id -> "ok" | "notracker" | "missing" | "denied"
    tgt,            \* table id -> rows with a tracker cell, in id order
    nextId,         \* table id -> id the service gives the next row
    pc,             \* "sleep" | "partitions" | "upsert" | "delete"
    cycle,          \* cycles started so far
    categorized,    \* insertion-ordered dict: <<[label, rows]>>
    k,              \* position of the label being processed in categorized
    sec_by_origin,  \* insertion-ordered dict: <<[key, row]>>
    synced_ids,     \* tracker values visited for the current label
    orphans,        \* keys of sec_by_origin to delete, in order
    j,              \* position in target_rows (upsert) or orphans (delete)
    ops,            \* requests issued so far in the current cycle
    lastOk,         \* the last finished cycle ended without an exception
    unchanged,      \* no source edit since the last cycle ended
    tgt0,           \* the target tables as they were when the cycle started
    nextId0,        \* the next row ids as they were when the cycle started
    aborted,        \* the start of the last cycle, if it raised after a write
                    \* was applied and the source has not been edited since
    p_val, p_opt, p_out,  \* payload translation: cell, option map, result
    f_row, f_rules, f_out \* filter evaluation: row, rules in order, results

cycleVars == <<pc, cycle, categorized, k, sec_by_origin, synced_ids, orphans,
               j, ops, lastOk, unchanged, tgt0, nextId0, aborted>>
histVars == <<nextId0, aborted>>
payVars == <<p_val, p_opt, p_out>>
fltVars == <<f_row, f_rules, f_out>>
vars == <<SECONDARY_COLUMN_PREFIX, src, schema, tgt, nextId, cycleVars, payVars, fltVars>>

NoRow == [tag |-> "norow"]

\* ------------------------------------------------------------ source data
CatCells == {List(<<>>), List(<<Dict("A")>>), List(<<Dict("B")>>),
             List(<<Dict("A"), Dict("B")>>), List(<<Dict("A"), Dict("A")>>)}
FltCells == {Scalar("Yes"), Scalar("No")}
ColorOf(i) == IF i = 1 THEN Dict("Red") ELSE List(<<Dict("Blue"), Bare("Green")>>)
SrcRows(i) == {[id |-> i, cats |-> c, flt |-> f, color |-> ColorOf(i)] :
                 c \in CatCells, f \in FltCells}

\* the rows of the source table as the service lists them (by id)
RECURSIVE RowsFrom(_, _)
RowsFrom(t, i) ==
    IF \A n \in DOMAIN t : n < i THEN <<>>
    ELSE IF i \in DOMAIN t /\ t[i] # NoRow THEN <<t[i]>> \o RowsFrom(t, i + 1)
    ELSE RowsFrom(t, i + 1)
\* a row the engine has written into the source table, as a source row: it
\* has the cloned cell and no other
AsSourceRow(r) == [id |-> r.id, cats |-> NoCell, flt |-> NoCell, color |-> r.color]
AsSourceRows(rows) == [n \in DOMAIN rows |-> AsSourceRow(rows[n])]

primary_rows == RowsFrom(src, 1) \o AsSourceRows(tgt[PRIMARY_TABLE_ID])

\* a source row as a row of the table the engine writes to: its tracker cell
\* is absent
AsTargetRow(r) == [id |-> r.id, origin |-> None, color |-> r.color]

\* the rows the rows request lists for a table
TableRows(t) ==
    IF t = PRIMARY_TABLE_ID
    THEN [n \in DOMAIN RowsFrom(src, 1) |-> AsTargetRow(RowsFrom(src, 1)[n])] \o tgt[t]
    ELSE tgt[t]

\* ----------------------------------------------------- row_passes_filters
RECURSIVE SeqToSet(_)
SeqToSet(s) == IF s = <<>> THEN {} ELSE {Head(s)} \cup SeqToSet(Tail(s))

current_values(cell) ==
    IF cell.tag = "list" THEN {ItemLabel(i) : i \in SeqToSet(cell.items)}
    ELSE IF cell.tag = "dict" THEN {cell.value}
    ELSE IF cell.tag = "scalar" THEN {cell.s}
    ELSE IF cell.tag = "num" THEN {Str(cell.n)}
    ELSE {}

\* row.get(field_key)
RowGet(row, field_key) == IF field_key \in DOMAIN row THEN row[field_key] ELSE NoCell

\* (variant: only the first rule is looked at)
row_passes_first(row, filters) ==
    \/ filters = <<>>
    \/ \E val \in current_values(RowGet(row, Head(filters).field_key)) :
          val \in Head(filters).allowed_values

\* the loop over the rules: the first rule without an allowed value returns
\* False, the end of the loop returns True
RECURSIVE row_passes(_, _)
row_passes(row, filters) ==
    IF filters = <<>> THEN TRUE
    ELSE IF ~\E val \in current_values(RowGet(row, Head(filters).field_key)) :
                val \in Head(filters).allowed_values
    THEN FALSE
    ELSE row_passes(row, Tail(filters))

row_passes_filters(row) == row_passes(row, ROW_FILTERS)

filtered_rows == SelectSeq(primary_rows, row_passes_filters)

\* --------------------------------------------------------------- grouping
\* categorized.setdefault(label, []).append(row)
SetDefaultAppend(cat, label, row) ==
    IF \E n \in DOMAIN cat : cat[n].label = label
    THEN [n \in DOMAIN cat |->
             IF cat[n].label = label
             THEN [cat[n] EXCEPT !.rows = Append(@, row)] ELSE cat[n]]
    ELSE Append(cat, [label |-> label, rows |-> <<row>>])

\* items = raw_val if isinstance(raw_val, list) else [raw_val]
ItemsOf(raw_val) ==
    IF raw_val.tag = "list" THEN raw_val.items
    ELSE IF raw_val.tag = "dict" THEN <<raw_val>>
    ELSE IF raw_val.tag = "scalar" /\ raw_val.s # "" THEN <<Bare(raw_val.s)>>
    ELSE <<>>

RECURSIVE AddItems(_, _, _)
AddItems(cat, row, items) ==
    IF items = <<>> THEN cat
    ELSE LET label == ItemLabel(Head(items))
         IN  AddItems(IF Truthy(label) THEN SetDefaultAppend(cat, label, row) ELSE cat,
                      row, Tail(items))

RECURSIVE Categorize(_, _)
Categorize(cat, rows) ==
    IF rows = <<>> THEN cat
    ELSE Categorize(AddItems(cat, Head(rows), ItemsOf(Head(rows).cats)), Tail(rows))

\* ----------------------------------------------------------- table lookup
\* the tables the all-tables request lists
\* (variant: a table is there for every label, as if tables were auto-created)
\* the name the table of label l has: the tables are named after the prefix
\* in use
TargetName(l) ==
    IF SECONDARY_COLUMN_PREFIX # "" THEN SECONDARY_COLUMN_PREFIX \o l ELSE "Src_" \o l

all_tables_every_label ==
    {[id |-> PRIMARY_TABLE_ID, name |-> PrimaryName]}
        \cup {[id |-> l, name |-> TargetName(l)] : l \in Labels}

all_tables ==
    {[id |-> PRIMARY_TABLE_ID, name |-> PrimaryName]}
        \cup {[id |-> l, name |-> TargetName(l)] :
                 l \in {x \in Labels : schema[x] # "missing"}}

get_secondary_table_name(label) ==
    LET secondary_prefix == IF SECONDARY_COLUMN_PREFIX # ""
                            THEN SECONDARY_COLUMN_PREFIX ELSE PrimaryName \o "_"
    IN  secondary_prefix \o label

TableKnown(target_name) == \E t \in all_tables : t.name = target_name
TableId(target_name) ==
    IF TableKnown(target_name)
    THEN (CHOOSE t \in all_tables : t.name = target_name).id
    ELSE None

\* --------------------------------------------- get_field_and_option_map
NoOptions == [x \in {} |-> 0]
ColorOptions == ("Red" :> 7) @@ ("Blue" :> 9)

\* the fields of a target table, as the fields request lists them
target_fields(t_id) ==
    {[name |-> CloneName, key |-> "field_color", select |-> TRUE, options |-> ColorOptions]}
        \cup (IF schema[t_id] = "ok"
              THEN {[name |-> PRIMARY_ID_COLUMN_NAME, key |-> "field_origin",
                     select |-> FALSE, options |-> NoOptions]}
              ELSE {})

fields_to_clone == {[key |-> "color", name |-> CloneName]}

Matched(fields) == {pf \in fields_to_clone : \E tf \in fields : tf.name = pf.name}
TargetOf(fields, pf) == CHOOSE tf \in fields : tf.name = pf.name

field_mapping(fields) ==
    [p_key \in {pf.key : pf \in Matched(fields)} |->
        TargetOf(fields, CHOOSE pf \in fields_to_clone : pf.key = p_key).key]

option_mapping(fields) ==
    [t_key \in {TargetOf(fields, pf).key :
                  pf \in {m \in Matched(fields) : TargetOf(fields, m).select}} |->
        (CHOOSE tf \in fields : tf.key = t_key).options]

\* (variant: the tracker key is assumed, never looked up)
tracker_key_assumed(fields) == "field_origin"

tracker_key(fields) ==
    IF \E tf \in fields : tf.name = PRIMARY_ID_COLUMN_NAME
    THEN (CHOOSE tf \in fields : tf.name = PRIMARY_ID_COLUMN_NAME).key
    ELSE None

\* ------------------------------------------------------ payload (176-193)
Null == [tag |-> "null"]                  \* a None value in the payload
Opt(n) == [tag |-> "opt", id |-> n]
OptList(ids) == [tag |-> "optlist", ids |-> ids]

RECURSIVE TranslateItems(_, _)
TranslateItems(items, options) ==
    IF items = <<>> THEN <<>>
    ELSE (IF ItemLabel(Head(items)) \in DOMAIN options
          THEN <<options[ItemLabel(Head(items))]>> ELSE <<>>)
         \o TranslateItems(Tail(items), options)

\* what lines 182-193 do with one mapped field: put says whether the
\* payload gets an entry for the field, v is the entry
Translate(val, mapped, options) ==
    IF val.tag = "none" THEN [put |-> FALSE, v |-> Null]
    ELSE IF mapped
         THEN IF val.tag = "list"
              THEN [put |-> TRUE, v |-> OptList(TranslateItems(val.items, options))]
              ELSE IF val.tag = "dict"
              THEN [put |-> TRUE,
                    v |-> IF val.value \in DOMAIN options
                          THEN Opt(options[val.value]) ELSE Null]
              ELSE [put |-> FALSE, v |-> Null]
         ELSE [put |-> TRUE, v |-> val]

FieldEntry(p_row, p_key, f_map, opt_map) ==
    LET t_key == f_map[p_key]
        mapped == t_key \in DOMAIN opt_map
    IN  Translate(p_row[p_key], mapped, IF mapped THEN opt_map[t_key] ELSE NoOptions)

Payload(p_row, f_map, opt_map, trk) ==
    LET put == {p_key \in DOMAIN f_map : FieldEntry(p_row, p_key, f_map, opt_map).put}
    IN  [t_key \in {f_map[p_key] : p_key \in put} |->
            FieldEntry(p_row, CHOOSE p_key \in put : f_map[p_key] = t_key,
                       f_map, opt_map).v]
        @@ (trk :> Str(p_row.id))

\* ------------------------------------------------- the service's row store
Stored(v) == IF v = Null THEN NoCell ELSE v

CreatedRow(nid, payload) ==
    [id |-> nid,
     origin |-> IF "field_origin" \in DOMAIN payload THEN payload["field_origin"] ELSE None,
     color |-> IF "field_color" \in DOMAIN payload
               THEN Stored(payload["field_color"]) ELSE NoCell]

UpdatedRow(row, payload) ==
    [id |-> row.id,
     origin |-> IF "field_origin" \in DOMAIN payload
                THEN payload["field_origin"] ELSE row.origin,
     color |-> IF "field_color" \in DOMAIN payload
               THEN Stored(payload["field_color"]) ELSE row.color]

Patched(rows, rid, payload) ==
    [n \in DOMAIN rows |-> IF rows[n].id = rid THEN UpdatedRow(rows[n], payload) ELSE rows[n]]

Removed(rows, rid) == SelectSeq(rows, LAMBDA r : r.id # rid)

\* --------------------------------------------------- tracker index (172)
DictPut(d, key, row) ==
    IF \E n \in DOMAIN d : d[n].key = key
    THEN [n \in DOMAIN d |-> IF d[n].key = key THEN [key |-> key, row |-> row] ELSE d[n]]
    ELSE Append(d, [key |-> key, row |-> row])

\* (variant: every row read is indexed, whatever its tracker cell holds)
RECURSIVE BuildIndexAll(_, _)
BuildIndexAll(d, sec_rows) ==
    IF sec_rows = <<>> THEN d
    ELSE BuildIndexAll(DictPut(d, Head(sec_rows).origin, Head(sec_rows)), Tail(sec_rows))

RECURSIVE BuildIndex(_, _)
BuildIndex(d, sec_rows) ==
    IF sec_rows = <<>> THEN d
    ELSE BuildIndex(IF Truthy(Head(sec_rows).origin)
                    THEN DictPut(d, Head(sec_rows).origin, Head(sec_rows)) ELSE d,
                    Tail(sec_rows))

\* (variant: the index is never hit)
HasKeyNever(d, key) == FALSE

HasKey(d, key) == \E n \in DOMAIN d : d[n].key = key
Lookup(d, key) == (CHOOSE e \in SeqToSet(d) : e.key = key).row

RECURSIVE Keys(_)
Keys(d) == IF d = <<>> THEN <<>> ELSE <<Head(d).key>> \o Keys(Tail(d))

\* orphans = [oid for oid in sec_by_origin if oid not in synced_ids]
\* (variant: every indexed row is taken for an orphan)
OrphansAll(d, synced) == Keys(d)

Orphans(d, synced) == SelectSeq(Keys(d), LAMBDA oid : oid \notin SeqToSet(synced))

\* ------------------------------------------------------------ make_request
\* response.raise_for_status() on a response that is not ok
\* (variant: the error is logged and swallowed)
RaisesNever(ok) == FALSE

Raises(ok) == ~ok

Req(op, table, label, tracker, rid, ok) ==
    [op |-> op, table |-> table, label |-> label, tracker |-> tracker, rid |-> rid,
     ok |-> ok]

\* ------------------------------------------------------------------ Init
\* a row added by hand: its tracker cell is absent in one table, empty in the other
ManualRow(l) == [id |-> 1, origin |-> IF l = "A" THEN None ELSE "", color |-> NoCell]

PayIdle == /\ p_val = NoCell
           /\ p_opt = [select |-> FALSE, options |-> NoOptions]
           /\ p_out = <<>>

FltIdle == /\ f_row = [fa |-> NoCell]
           /\ f_rules = <<>>
           /\ f_out = <<>>

NoAbort == [tag |-> "none"]

Locals0 == /\ categorized = <<>>
           /\ aborted = NoAbort
           /\ k = 1
           /\ sec_by_origin = <<>>
           /\ synced_ids = <<>>
           /\ orphans = <<>>
           /\ j = 1
           /\ ops = <<>>

\* the id of the next row of each table: the source table holds the ids of
\* SrcIds besides the rows of tgt
FirstIds(tables) ==
    [t \in Tables |-> Len(tables[t]) + 1
                         + (IF t = PRIMARY_TABLE_ID THEN Cardinality(SrcIds) ELSE 0)]

\* no table but the source table, which has no tracker field
NoTargets ==
    /\ SECONDARY_COLUMN_PREFIX = ""
    /\ schema = [t \in Tables |-> IF t = PRIMARY_TABLE_ID THEN "notracker" ELSE "missing"]
    /\ tgt = [t \in Tables |-> <<>>]
    /\ nextId = FirstIds(tgt)

Init ==
    /\ src \in {t \in [SrcIds -> UNION {SrcRows(i) : i \in SrcIds} \cup {NoRow}] :
                  \A i \in SrcIds : t[i] = NoRow \/ t[i].id = i}
    /\ SECONDARY_COLUMN_PREFIX = ""
    /\ schema \in {s \in [Tables -> {"ok", "notracker", "missing"}] :
                     s[PRIMARY_TABLE_ID] = "notracker"}
    /\ tgt \in {t \in [Tables -> {<<>>} \cup {<<ManualRow(l)>> : l \in Labels}] :
                  /\ t[PRIMARY_TABLE_ID] = <<>>
                  /\ \A l \in Labels :
                        /\ t[l] \in {<<>>, <<ManualRow(l)>>}
                        /\ (schema[l] = "missing" => t[l] = <<>>)}
    /\ nextId = FirstIds(tgt)
    /\ pc = "sleep"
    /\ cycle = 0
    /\ Locals0
    /\ lastOk = FALSE
    /\ unchanged = TRUE
    /\ tgt0 = tgt
    /\ nextId0 = nextId
    /\ PayIdle
    /\ FltIdle

\* --------------------------------------------------------------- actions
ResetLocals == /\ categorized' = <<>>
               /\ k' = 1
               /\ sec_by_origin' = <<>>
               /\ synced_ids' = <<>>
               /\ orphans' = <<>>
               /\ j' = 1
               /\ ops' = <<>>
               /\ tgt0' = tgt
               /\ nextId0' = nextId

CurLabel == categorized[k].label
target_rows == categorized[k].rows
t_id == TableId(get_secondary_table_name(CurLabel))

\* the source table is edited between two cycles
EditRow(i) ==
    /\ pc = "sleep"
    /\ cycle >= 1
    /\ cycle < MaxCycles
    /\ \E r \in SrcRows(i) \cup {NoRow} :
          /\ r # src[i]
          /\ src' = [src EXCEPT ![i] = r]
    /\ unchanged' = FALSE
    /\ aborted' = NoAbort
    /\ UNCHANGED <<SECONDARY_COLUMN_PREFIX, schema, tgt, nextId, pc, cycle, categorized, k, sec_by_origin,
                   synced_ids, orphans, j, ops, lastOk, tgt0, payVars, fltVars, nextId0>>

Edit == \E i \in SrcIds : EditRow(i)

\* sync_database, lines 101-149: the three fetches, the filter, the grouping
EnterSync(c) ==
    /\ pc = "sleep"
    /\ cycle' = c
    /\ tgt0' = tgt
    /\ nextId0' = nextId
    /\ \E ok \in BOOLEAN :
          /\ ops' = <<Req("GET_SOURCE", PRIMARY_TABLE_ID, None, None, 0, ok)>>
          /\ pc' = IF Raises(ok) THEN "raised" ELSE "partitions"
          /\ categorized' = IF ok THEN Categorize(<<>>, filtered_rows) ELSE <<>>
    /\ UNCHANGED <<SECONDARY_COLUMN_PREFIX, src, schema, tgt, nextId, k, sec_by_origin, synced_ids, orphans,
                   j, lastOk, unchanged, payVars, fltVars, aborted>>

\* line 211: the loop calls sync_database after the sleep of line 215
StartCycle ==
    /\ cycle < MaxCycles
    /\ EnterSync(cycle + 1)

\* the same once MaxCycles cycles have been counted: the loop goes on, the
\* count does not
StartCycleAgain ==
    /\ cycle = MaxCycles
    /\ EnterSync(cycle)

\* lines 152-155: no table of that name
SkipMissingTable ==
    /\ pc = "partitions"
    /\ k <= Len(categorized)
    /\ ~TableKnown(get_secondary_table_name(CurLabel))
    /\ k' = k + 1
    /\ UNCHANGED <<SECONDARY_COLUMN_PREFIX, src, schema, tgt, nextId, pc, cycle, categorized, sec_by_origin,
                   synced_ids, orphans, j, ops, lastOk, unchanged, tgt0, payVars, fltVars,
                   histVars>>

\* lines 157-173: the fields, the tracker check, the rows, the index
BeginPartition ==
    /\ pc = "partitions"
    /\ k <= Len(categorized)
    /\ TableKnown(get_secondary_table_name(CurLabel))
    /\ \E okF \in BOOLEAN, okR \in BOOLEAN :
          LET fields == IF okF THEN target_fields(t_id) ELSE {}
              getF == Req("GET_FIELDS", t_id, CurLabel, None, 0, okF)
              getR == Req("GET_ROWS", t_id, CurLabel, None, 0, okR)
          IN  IF Raises(okF)
              THEN /\ okR
                   /\ pc' = "raised"
                   /\ ops' = Append(ops, getF)
                   /\ UNCHANGED <<SECONDARY_COLUMN_PREFIX, k, sec_by_origin, synced_ids, j>>
              ELSE IF ~Truthy(tracker_key(fields))
              THEN /\ okR
                   /\ k' = k + 1
                   /\ ops' = Append(ops, getF)
                   /\ UNCHANGED <<SECONDARY_COLUMN_PREFIX, pc, sec_by_origin, synced_ids, j>>
              ELSE IF Raises(okR)
              THEN /\ pc' = "raised"
                   /\ ops' = ops \o <<getF, getR>>
                   /\ UNCHANGED <<SECONDARY_COLUMN_PREFIX, k, sec_by_origin, synced_ids, j>>
              ELSE /\ pc' = "upsert"
                   /\ ops' = ops \o <<getF, getR>>
                   /\ sec_by_origin' = BuildIndex(<<>>, IF okR THEN TableRows(t_id) ELSE <<>>)
                   /\ synced_ids' = <<>>
                   /\ j' = 1
                   /\ k' = k
    /\ UNCHANGED <<SECONDARY_COLUMN_PREFIX, src, schema, tgt, nextId, cycle, categorized, orphans, lastOk,
                   unchanged, tgt0, payVars, fltVars,
                   histVars>>

\* lines 176-198: one desired row, updated or created
Upsert ==
    /\ pc = "upsert"
    /\ j <= Len(target_rows)
    /\ LET p_row == target_rows[j]
           p_id == Str(p_row.id)
           fields == target_fields(t_id)
           trk == tracker_key(fields)
           payload == Payload(p_row, field_mapping(fields), option_mapping(fields), trk)
       IN  /\ synced_ids' = Append(synced_ids, p_id)
           /\ \E ok \in BOOLEAN :
                 /\ IF HasKey(sec_by_origin, p_id)
                    THEN LET rid == Lookup(sec_by_origin, p_id).id
                         IN  /\ ops' = Append(ops, Req("PATCH", t_id, CurLabel, payload[trk], rid, ok))
                             /\ tgt' = IF ok
                                       THEN [tgt EXCEPT ![t_id] = Patched(@, rid, payload)]
                                       ELSE tgt
                             /\ nextId' = nextId
                    ELSE /\ ops' = Append(ops, Req("POST", t_id, CurLabel, payload[trk], 0, ok))
                         /\ tgt' = IF ok
                                   THEN [tgt EXCEPT ![t_id] =
                                            Append(@, CreatedRow(nextId[t_id], payload))]
                                   ELSE tgt
                         /\ nextId' = IF ok THEN [nextId EXCEPT ![t_id] = @ + 1] ELSE nextId
                 /\ IF Raises(ok)
                    THEN pc' = "raised" /\ j' = j
                    ELSE pc' = "upsert" /\ j' = j + 1
    /\ UNCHANGED <<SECONDARY_COLUMN_PREFIX, src, schema, cycle, categorized, k, sec_by_origin, orphans, lastOk,
                   unchanged, tgt0, payVars, fltVars,
                   histVars>>

\* lines 200-202: the orphans of the partition
UpsertsDone ==
    /\ pc = "upsert"
    /\ j > Len(target_rows)
    /\ orphans' = Orphans(sec_by_origin, synced_ids)
    /\ pc' = "delete"
    /\ j' = 1
    /\ UNCHANGED <<SECONDARY_COLUMN_PREFIX, src, schema, tgt, nextId, cycle, categorized, k, sec_by_origin,
                   synced_ids, ops, lastOk, unchanged, tgt0, payVars, fltVars,
                   histVars>>

\* lines 204-205: one orphan deleted
DeleteOrphan ==
    /\ pc = "delete"
    /\ j <= Len(orphans)
    /\ LET oid == orphans[j]
           rid == Lookup(sec_by_origin, oid).id
       IN  \E ok \in BOOLEAN :
              /\ ops' = Append(ops, Req("DELETE", t_id, CurLabel, oid, rid, ok))
              /\ tgt' = IF ok THEN [tgt EXCEPT ![t_id] = Removed(@, rid)] ELSE tgt
              /\ IF Raises(ok)
                 THEN pc' = "raised" /\ j' = j
                 ELSE pc' = "delete" /\ j' = j + 1
    /\ UNCHANGED <<SECONDARY_COLUMN_PREFIX, src, schema, nextId, cycle, categorized, k, sec_by_origin, synced_ids,
                   orphans, lastOk, unchanged, tgt0, payVars, fltVars,
                   histVars>>

\* line 151: on to the next label
PartitionDone ==
    /\ pc = "delete"
    /\ j > Len(orphans)
    /\ k' = k + 1
    /\ pc' = "partitions"
    /\ UNCHANGED <<SECONDARY_COLUMN_PREFIX, src, schema, tgt, nextId, cycle, categorized, sec_by_origin,
                   synced_ids, orphans, j, ops, lastOk, unchanged, tgt0, payVars, fltVars,
                   histVars>>

\* lines 211-212 and 215: sync_database returned; sleep
FinishCycle ==
    /\ pc = "partitions"
    /\ k > Len(categorized)
    /\ pc' = "sleep"
    /\ lastOk' = TRUE
    /\ unchanged' = TRUE
    /\ aborted' = NoAbort
    /\ ResetLocals
    /\ UNCHANGED <<SECONDARY_COLUMN_PREFIX, src, schema, tgt, nextId, cycle, payVars, fltVars>>

\* lines 213-215: the exception reaches the loop, is logged; sleep
\* (variant: the exception is not caught and ends the process)
CatchExits ==
    /\ pc = "raised"
    /\ pc' = "exited"
    /\ UNCHANGED <<SECONDARY_COLUMN_PREFIX, src, schema, tgt, nextId, cycle, categorized, k, sec_by_origin,
                   synced_ids, orphans, j, ops, lastOk, unchanged, tgt0, payVars, fltVars,
                   histVars>>

Catch ==
    /\ pc = "raised"
    /\ pc' = "sleep"
    /\ lastOk' = FALSE
    /\ unchanged' = TRUE
    /\ aborted' = IF \E n \in DOMAIN ops : ops[n].ok /\ ops[n].op \in {"POST", "PATCH", "DELETE"}
                  THEN [tag |-> "aborted", tgt |-> tgt0, nextId |-> nextId0]
                  ELSE NoAbort
    /\ ResetLocals
    /\ UNCHANGED <<SECONDARY_COLUMN_PREFIX, src, schema, tgt, nextId, cycle, payVars, fltVars>>

Next ==
    \/ Edit
    \/ StartCycle
    \/ SkipMissingTable
    \/ BeginPartition
    \/ Upsert
    \/ UpsertsDone
    \/ DeleteOrphan
    \/ PartitionDone
    \/ FinishCycle
    \/ Catch

Spec == Init /\ [][Next]_vars

\* the loop without an end: the steps of the process are taken as long as
\* they can be (a request returns or fails, the sleep ends)
ProcessStep ==
    \/ StartCycle
    \/ StartCycleAgain
    \/ SkipMissingTable
    \/ BeginPartition
    \/ Upsert
    \/ UpsertsDone
    \/ DeleteOrphan
    \/ PartitionDone
    \/ FinishCycle
    \/ Catch

LiveIds == {1}          \* the source rows that are edited while the loop runs on

InitLive ==
    /\ Init
    /\ \A l \in Labels : tgt[l] = <<>>
    /\ \A i \in LiveIds : src[i] # NoRow /\ row_passes_filters(src[i])
    /\ \A i \in SrcIds \ LiveIds :
          \/ src[i] = NoRow
          \/ row_passes_filters(src[i]) /\ src[i].cats = List(<<Dict("A")>>)

EditLive == \E i \in LiveIds : EditRow(i)

NextLive ==
    \/ EditLive
    \/ StartCycle
    \/ StartCycleAgain
    \/ SkipMissingTable
    \/ BeginPartition
    \/ Upsert
    \/ UpsertsDone
    \/ DeleteOrphan
    \/ PartitionDone
    \/ FinishCycle
    \/ Catch

SpecLive == InitLive /\ [][NextLive]_vars /\ WF_vars(ProcessStep)

\* ------------------------------------------- payload translation on its own
MaxItems == 2           \* longest multi-select list that is translated

PayLabels == {"Red", "Blue", "Green"}
PayItems == {Dict(l) : l \in PayLabels} \cup {Bare(l) : l \in PayLabels}
PayLists == UNION {[1..n -> PayItems] : n \in 0..MaxItems}
PayCells == {NoCell, Scalar("Red")} \cup {Dict(l) : l \in PayLabels}
                \cup {List(items) : items \in PayLists}
PayOptions == {NoOptions, "Red" :> 7, "Blue" :> 9, ColorOptions}
PayOpts == {[select |-> FALSE, options |-> NoOptions]}
               \cup {[select |-> TRUE, options |-> o] : o \in PayOptions}

\* the fields of a target table whose cloned column is as p_opt says
pay_fields ==
    {[name |-> CloneName, key |-> "field_color", select |-> p_opt.select,
      options |-> p_opt.options],
     [name |-> PRIMARY_ID_COLUMN_NAME, key |-> "field_origin", select |-> FALSE,
      options |-> NoOptions]}

pay_row == [id |-> 1, cats |-> List(<<Dict("A")>>), flt |-> Scalar("Yes"), color |-> p_val]

InitPayload ==
    /\ src = [i \in SrcIds |-> NoRow]
    /\ NoTargets
    /\ pc = "sleep"
    /\ cycle = 0
    /\ Locals0
    /\ lastOk = FALSE
    /\ unchanged = TRUE
    /\ tgt0 = tgt
    /\ nextId0 = nextId
    /\ p_val \in PayCells
    /\ p_opt \in PayOpts
    /\ p_out = <<>>
    /\ FltIdle

\* lines 179-193 for one row
BuildPayload ==
    /\ DOMAIN p_out = {}
    /\ p_out' = Payload(pay_row, field_mapping(pay_fields), option_mapping(pay_fields),
                        tracker_key(pay_fields))
    /\ UNCHANGED <<SECONDARY_COLUMN_PREFIX, src, schema, tgt, nextId, cycleVars, p_val, p_opt, fltVars>>

NextPayload == BuildPayload

SpecPayload == InitPayload /\ [][NextPayload]_vars

\* ------------------------------------------- row_passes_filters on its own
MaxFltItems == 1        \* longest list cell that is filtered

FltFields == {"fa", "fb"}
FltItems == {Dict("Yes"), Dict("No"), Bare("5")}
FltLists == UNION {[1..n -> FltItems] : n \in 0..MaxFltItems}
FltRowCells == {NoCell, Scalar("Yes"), Scalar(""), Num(5), Dict("Yes"), Dict("No")}
                   \cup {List(items) : items \in FltLists}
FltRows == [fa : FltRowCells, fb : FltRowCells] \cup [fa : FltRowCells]
FltAllowed == {{}, {"Yes"}, {"No"}, {"5", "Yes"}}
FltRules == [field_key : FltFields, allowed_values : FltAllowed]
\* a dict has every key once
FltRuleSeqs == {<<>>} \cup {<<r>> : r \in FltRules}
                   \cup {<<r1, r2>> : r1 \in {r \in FltRules : r.field_key = "fa"},
                                      r2 \in {r \in FltRules : r.field_key = "fb"}}
                   \cup {<<r2, r1>> : r1 \in {r \in FltRules : r.field_key = "fa"},
                                      r2 \in {r \in FltRules : r.field_key = "fb"}}

Reverse(s) == [n \in 1..Len(s) |-> s[Len(s) + 1 - n]]

InitFilter ==
    /\ src = [i \in SrcIds |-> NoRow]
    /\ NoTargets
    /\ pc = "sleep"
    /\ cycle = 0
    /\ Locals0
    /\ lastOk = FALSE
    /\ unchanged = TRUE
    /\ tgt0 = tgt
    /\ nextId0 = nextId
    /\ PayIdle
    /\ f_row \in FltRows
    /\ f_rules \in FltRuleSeqs
    /\ f_out = <<>>

\* the row is filtered under the rules as they are configured
FilterRow ==
    /\ Len(f_out) = 0
    /\ f_out' = <<row_passes(f_row, f_rules)>>
    /\ UNCHANGED <<SECONDARY_COLUMN_PREFIX, src, schema, tgt, nextId, cycleVars, payVars, f_row, f_rules>>

\* the same row is filtered under the same rules configured in the other order
FilterRowReordered ==
    /\ Len(f_out) = 1
    /\ f_out' = Append(f_out, row_passes(f_row, Reverse(f_rules)))
    /\ UNCHANGED <<SECONDARY_COLUMN_PREFIX, src, schema, tgt, nextId, cycleVars, payVars, f_row, f_rules>>

NextFilter == FilterRow \/ FilterRowReordered

SpecFilter == InitFilter /\ [][NextFilter]_vars

\* ----------------------------------------- the labels taken in any order
\* line 151 takes the labels in the order of first occurrence; here the
\* cycle is run with the labels in every order, against a service that
\* refuses every request for some tables ("denied") and no other
Orders(s) ==
    {p \in [1..Len(s) -> SeqToSet(s)] :
        \A a, b \in 1..Len(s) : a # b => p[a] # p[b]}

TrackedRow(o) == [id |-> 1, origin |-> o, color |-> NoCell]

InitOrder ==
    /\ src \in {t \in [SrcIds -> UNION {SrcRows(i) : i \in SrcIds} \cup {NoRow}] :
                  \A i \in SrcIds : t[i] = NoRow \/ (t[i].id = i /\ row_passes_filters(t[i]))}
    /\ SECONDARY_COLUMN_PREFIX = ""
    /\ schema \in {s \in [Tables -> {"ok", "notracker", "missing", "denied"}] :
                     s[PRIMARY_TABLE_ID] = "notracker"}
    /\ tgt \in {t \in [Tables -> {<<>>, <<TrackedRow("2")>>}] :
                  /\ t[PRIMARY_TABLE_ID] = <<>>
                  /\ \A l \in Labels : schema[l] = "missing" => t[l] = <<>>}
    /\ nextId = FirstIds(tgt)
    /\ pc = "sleep"
    /\ cycle = 0
    /\ Locals0
    /\ lastOk = FALSE
    /\ unchanged = TRUE
    /\ tgt0 = tgt
    /\ nextId0 = nextId
    /\ PayIdle
    /\ FltIdle

\* the outcome of a request is the table's: refused iff the table is denied
ServiceFixed ==
    \A n \in DOMAIN ops :
        ops[n].ok = (ops[n].table = PRIMARY_TABLE_ID \/ schema[ops[n].table] # "denied")

\* lines 101-151 with the labels of categorized in an order of choice
StartOrdered ==
    /\ pc = "sleep"
    /\ cycle = 0
    /\ cycle' = 1
    /\ tgt0' = tgt
    /\ nextId0' = nextId
    /\ ops' = <<Req("GET_SOURCE", PRIMARY_TABLE_ID, None, None, 0, TRUE)>>
    /\ pc' = "partitions"
    /\ categorized' \in Orders(Categorize(<<>>, filtered_rows))
    /\ UNCHANGED <<SECONDARY_COLUMN_PREFIX, src, schema, tgt, nextId, k, sec_by_origin, synced_ids, orphans,
                   j, lastOk, unchanged, payVars, fltVars, aborted>>

ServedBeginPartition == BeginPartition /\ ServiceFixed'
ServedUpsert == Upsert /\ ServiceFixed'
ServedDeleteOrphan == DeleteOrphan /\ ServiceFixed'

NextOrder ==
    \/ StartOrdered
    \/ SkipMissingTable
    \/ ServedBeginPartition
    \/ ServedUpsert
    \/ UpsertsDone
    \/ ServedDeleteOrphan
    \/ PartitionDone
    \/ FinishCycle
    \/ Catch

SpecOrder == InitOrder /\ [][NextOrder]_vars

\* ------------------------------------------------- a prefix that is set
\* SECONDARY_COLUMN_PREFIX is set to "Sr": the tables of the labels are SrA
\* and SrB, and the source rows also name the label "c"
AliasPrefixes == {"", "Sr"}
AliasCats == {List(<<Bare("c")>>), List(<<Dict("A")>>), List(<<Dict("A"), Dict("c")>>)}
AliasRows(i) == {[id |-> i, cats |-> c, flt |-> f, color |-> ColorOf(i)] :
                   c \in AliasCats, f \in FltCells}
\* a row the engine created in the source table for source row 2
WrittenRow == [id |-> Cardinality(SrcIds) + 1, origin |-> "2", color |-> NoCell]

InitAlias ==
    /\ SECONDARY_COLUMN_PREFIX \in AliasPrefixes
    /\ src \in {t \in [SrcIds -> UNION {AliasRows(i) : i \in SrcIds} \cup {NoRow}] :
                  /\ t[1] # NoRow
                  /\ \A i \in SrcIds : t[i] = NoRow \/ t[i].id = i}
    /\ schema \in {s \in [Tables -> {"ok", "notracker", "missing"}] :
                     s[PRIMARY_TABLE_ID] # "missing" /\ s["B"] = "missing"}
    /\ tgt \in {t \in [Tables -> {<<>>, <<WrittenRow>>, <<TrackedRow("2")>>}] :
                  /\ t[PRIMARY_TABLE_ID] \in {<<>>, <<WrittenRow>>}
                  /\ t[PRIMARY_TABLE_ID] # <<>> => schema[PRIMARY_TABLE_ID] = "ok"
                  /\ \A l \in Labels :
                        /\ t[l] \in {<<>>, <<TrackedRow("2")>>}
                        /\ (t[l] # <<>> => schema[l] = "ok")}
    /\ nextId = FirstIds(tgt)
    /\ pc = "sleep"
    /\ cycle = 0
    /\ Locals0
    /\ lastOk = FALSE
    /\ unchanged = TRUE
    /\ tgt0 = tgt
    /\ nextId0 = nextId
    /\ PayIdle
    /\ FltIdle

NextAlias ==
    \/ StartCycle
    \/ SkipMissingTable
    \/ BeginPartition
    \/ Upsert
    \/ UpsertsDone
    \/ DeleteOrphan
    \/ PartitionDone
    \/ FinishCycle
    \/ Catch

SpecAlias == InitAlias /\ [][NextAlias]_vars

\* ================================================================ claims
CycleEnd == pc = "partitions" /\ k > Len(categorized)
AllOk == \A n \in DOMAIN ops : ops[n].ok
Writes == {"POST", "PATCH", "DELETE"}
Upserts == {"POST", "PATCH"}

Issued(kinds, l, t) ==
    {n \in DOMAIN ops : ops[n].op \in kinds /\ ops[n].label = l /\ ops[n].tracker = t}
IssuedFor(kinds, l) == {n \in DOMAIN ops : ops[n].op \in kinds /\ ops[n].label = l}
Tracked(rows, t) == {n \in DOMAIN rows : rows[n].origin = t}
DesiredRows(l) ==
    IF \E m \in DOMAIN categorized : categorized[m].label = l
    THEN (CHOOSE e \in SeqToSet(categorized) : e.label = l).rows ELSE <<>>
LabelsOf(row) == {ItemLabel(i) : i \in SeqToSet(ItemsOf(row.cats))}
Assigned(i, l) == src[i] # NoRow /\ l \in LabelsOf(src[i])
Blocked(i) == src[i] # NoRow /\ ~row_passes_filters(src[i])

\* C1: a second cycle right after a clean one, with nothing changed in
\* between and every request succeeding, issues no create, update or delete.
C1_Idempotence ==
    (CycleEnd /\ cycle >= 2 /\ lastOk /\ unchanged /\ AllOk)
        => \A n \in DOMAIN ops : ops[n].op \notin Writes

\* C2: at the end of a cycle whose requests all succeeded, every row that was
\* mirrored into an existing, tracked partition table and is no longer
\* assigned to that partition has had a delete issued for its tracker there.
C2_OrphanRemoval ==
    (CycleEnd /\ AllOk)
        => \A l \in Labels : \A i \in SrcIds :
              (schema[l] = "ok" /\ Tracked(tgt0[l], Str(i)) # {} /\ ~Assigned(i, l))
                  => \E n \in Issued({"DELETE"}, l, Str(i)) : ops[n].ok

\* C3: once a cycle is over, a failed create, update or delete has not kept
\* the remaining rows of its partition from being issued, nor the later
\* partitions from being visited.
C3_FailureIsolation ==
    (pc = "raised" \/ CycleEnd)
        => \A n \in DOMAIN ops :
              (ops[n].op \in Writes /\ ~ops[n].ok)
                  => /\ Cardinality(IssuedFor(Upserts, ops[n].label))
                          = Len(DesiredRows(ops[n].label))
                     /\ \A m \in DOMAIN categorized :
                           TableKnown(get_secondary_table_name(categorized[m].label))
                               => IssuedFor({"GET_FIELDS"}, categorized[m].label) # {}

\* C4: a source row that fails a filter rule gets no create and no update
\* under its id in any table during the cycle, and by the end of a cycle whose
\* requests all succeeded every row mirrored from it in an existing, tracked
\* partition table has had a delete issued.
C4_FilterGating ==
    \A i \in SrcIds :
        (pc # "sleep" /\ Blocked(i))
            => /\ \A l \in Labels : Issued(Upserts, l, Str(i)) = {}
               /\ (CycleEnd /\ AllOk)
                     => \A l \in Labels :
                           (schema[l] = "ok" /\ Tracked(tgt0[l], Str(i)) # {})
                               => \E n \in Issued({"DELETE"}, l, Str(i)) : ops[n].ok

\* C5: at the end of a cycle whose requests all succeeded, a source row that
\* passes the filters and names two labels whose tables exist and are tracked
\* has exactly one row under its id in each of the two tables.
C5_FanOut ==
    (CycleEnd /\ AllOk)
        => \A i \in SrcIds : \A a \in Labels : \A b \in Labels \ {a} :
              (/\ src[i] # NoRow
               /\ row_passes_filters(src[i])
               /\ Len(ItemsOf(src[i].cats)) = 2
               /\ LabelsOf(src[i]) = {a, b}
               /\ schema[a] = "ok"
               /\ schema[b] = "ok")
                  => /\ Cardinality(Tracked(tgt[a], Str(i))) = 1
                     /\ Cardinality(Tracked(tgt[b], Str(i))) = 1

\* C6: every delete of a partition comes after all the creates and updates
\* of that partition in the cycle, and each of those has succeeded.
C6_WritesBeforeDeletes ==
    \A n \in DOMAIN ops :
        ops[n].op = "DELETE"
            => /\ \A m \in IssuedFor(Upserts, ops[n].label) : m < n /\ ops[m].ok
               /\ Cardinality(IssuedFor(Upserts, ops[n].label))
                     = Len(DesiredRows(ops[n].label))

C6_Witness ==
    \E n \in DOMAIN ops :
        /\ ops[n].op = "DELETE"
        /\ IssuedFor(Upserts, ops[n].label) # {}

\* C7: when the index of a partition has just been built, every key of it is
\* the tracker of exactly one current row; a tracker carried by two or more
\* rows, or an absent one, is not a key.
C7_DuplicateTrackers ==
    (pc = "upsert" /\ j = 1)
        => \A n \in DOMAIN sec_by_origin :
              /\ Truthy(sec_by_origin[n].key)
              /\ Cardinality(Tracked(tgt[t_id], sec_by_origin[n].key)) = 1

\* C8: with an option mapping on the target field, a list is translated
\* element by element and unmapped elements are dropped; a single select is
\* translated to its identifier, and the payload has no entry for the field
\* when its label is unmapped.
C8_OptionTranslation ==
    (DOMAIN p_out # {} /\ p_opt.select)
        => /\ p_val.tag = "list"
                => LET kept == SelectSeq(p_val.items,
                                         LAMBDA i : ItemLabel(i) \in DOMAIN p_opt.options)
                   IN  /\ "field_color" \in DOMAIN p_out
                       /\ p_out["field_color"] =
                             OptList([n \in 1..Len(kept) |->
                                         p_opt.options[ItemLabel(kept[n])]])
           /\ p_val.tag = "dict"
                => IF p_val.value \in DOMAIN p_opt.options
                   THEN /\ "field_color" \in DOMAIN p_out
                        /\ p_out["field_color"] = Opt(p_opt.options[p_val.value])
                   ELSE "field_color" \notin DOMAIN p_out

\* C9: a partition whose table has no tracker field gets nothing but the
\* fields request; the skip does not end the cycle, and at the end of a cycle
\* whose requests all succeeded every other partition with a tracked table has
\* had its rows read and one create or update per desired row.
C9_MissingTracker ==
    /\ \A n \in DOMAIN ops :
          (ops[n].label \in Labels /\ schema[ops[n].label] = "notracker")
              => ops[n].op = "GET_FIELDS"
    /\ pc = "raised" => ~ops[Len(ops)].ok
    /\ (CycleEnd /\ AllOk)
          => \A m \in DOMAIN categorized :
                schema[categorized[m].label] = "ok"
                    => /\ IssuedFor({"GET_ROWS"}, categorized[m].label) # {}
                       /\ Cardinality(IssuedFor(Upserts, categorized[m].label))
                             = Len(categorized[m].rows)

C9_Witness ==
    /\ CycleEnd
    /\ AllOk
    /\ \E m \in DOMAIN categorized : \E m2 \in DOMAIN categorized :
          /\ m < m2
          /\ schema[categorized[m].label] = "notracker"
          /\ IssuedFor({"GET_FIELDS"}, categorized[m].label) # {}
          /\ schema[categorized[m2].label] = "ok"
          /\ IssuedFor(Upserts, categorized[m2].label) # {}

\* C10: a label whose resolved table name matches no table gets no request at
\* all, and the cycle goes on: with every request succeeding, each later
\* label whose table exists has had its fields read.
C10_MissingTable ==
    /\ \A n \in DOMAIN ops :
          ops[n].label \in Labels => schema[ops[n].label] # "missing"
    /\ (CycleEnd /\ AllOk)
          => \A m \in DOMAIN categorized :
                schema[categorized[m].label] # "missing"
                    => IssuedFor({"GET_FIELDS"}, categorized[m].label) # {}

C10_Witness ==
    /\ CycleEnd
    /\ AllOk
    /\ \E m \in DOMAIN categorized : \E m2 \in DOMAIN categorized :
          /\ m < m2
          /\ schema[categorized[m].label] = "missing"
          /\ schema[categorized[m2].label] = "ok"
          /\ IssuedFor({"POST"}, categorized[m2].label) # {}

\* C11: the request log is started afresh only out of the sleep (a cycle never
\* starts inside another), the process is always asleep or in a cycle, a
\* cycle that raised is caught and followed by the sleep, every cycle ends,
\* and after every sleep another cycle starts.
C11_Scheduling ==
    /\ [][(ops' # ops /\ Len(ops') = 1) => pc = "sleep"]_vars
    /\ [](pc \in {"sleep", "partitions", "upsert", "delete", "raised"})
    /\ (pc = "raised") ~> (pc = "sleep")
    /\ []<>(pc = "sleep")
    /\ (pc = "sleep") ~> (pc # "sleep")

C11_Witness == pc # "sleep" /\ cycle >= 2 /\ ~lastOk

DesiredIds(l) == {Str(r.id) : r \in SeqToSet(DesiredRows(l))}
RowIds(rows) == {rows[n].id : n \in DOMAIN rows}

\* C13: every delete of the cycle is for a row that was read from the
\* partition's table with a tracker value, and that value is the id of no
\* desired row of the partition; a row read with the id of a desired row as
\* tracker is still in the table, whatever it holds.
C13_OrphanStrictness ==
    /\ \A n \in DOMAIN ops :
          ops[n].op = "DELETE"
              => /\ ops[n].tracker \notin DesiredIds(ops[n].label)
                 /\ ops[n].tracker \notin {None, ""}
                 /\ \E m \in Tracked(tgt0[ops[n].table], ops[n].tracker) :
                       tgt0[ops[n].table][m].id = ops[n].rid
                 /\ (pc = "delete" /\ ops[n].label = CurLabel)
                       => \E e \in SeqToSet(sec_by_origin) :
                             e.key = ops[n].tracker /\ e.row.id = ops[n].rid
    /\ \A l \in Labels : \A m \in DOMAIN tgt0[l] :
          tgt0[l][m].origin \in DesiredIds(l) => tgt0[l][m].id \in RowIds(tgt[l])

C13_Witness ==
    \E n \in DOMAIN ops :
        /\ ops[n].op = "DELETE"
        /\ ops[n].ok
        /\ \E m \in DOMAIN tgt0[ops[n].table] :
              /\ tgt0[ops[n].table][m].origin \in DesiredIds(ops[n].label)
              /\ tgt0[ops[n].table][m].id \in RowIds(tgt[ops[n].table])

\* the cell-value set of a cell as the specification gives it
C14_ValueSet(cell) ==
    IF cell.tag = "none" THEN {}
    ELSE IF cell.tag = "scalar" THEN {cell.s}
    ELSE IF cell.tag = "num" THEN {Str(cell.n)}
    ELSE IF cell.tag = "dict" THEN {cell.value}
    ELSE {IF cell.items[n].tag = "dict" THEN cell.items[n].value ELSE cell.items[n].s :
             n \in DOMAIN cell.items}

\* C14: the row passes iff for every declared rule the row's cell-value set
\* for the rule's field (empty for a field the row lacks) meets the rule's
\* allowed set; with no rule it passes; the other rule order gives the same.
C14_FilterSemantics ==
    \A n \in DOMAIN f_out :
        f_out[n] = (\A r \in DOMAIN f_rules :
                       LET cell == IF f_rules[r].field_key \in DOMAIN f_row
                                   THEN f_row[f_rules[r].field_key] ELSE NoCell
                       IN  C14_ValueSet(cell) \cap f_rules[r].allowed_values # {})

C14_Witness ==
    /\ Len(f_out) = 2
    /\ Len(f_rules) = 2
    /\ f_rules[1].field_key = "fa"
    /\ ~f_out[1]
    /\ \E val \in C14_ValueSet(f_row.fa) : val \in f_rules[1].allowed_values

\* the rows of a table after a pass over it in which every request succeeds:
\* the desired rows updated or created against the index of the rows read,
\* then the orphans of that index removed
RECURSIVE UpsertedAll(_, _, _, _, _)
UpsertedAll(rows, n_id, desired, idx, fields) ==
    IF desired = <<>> THEN rows
    ELSE LET p_id == Str(Head(desired).id)
             payload == Payload(Head(desired), field_mapping(fields),
                                option_mapping(fields), tracker_key(fields))
         IN  IF \E e \in SeqToSet(idx) : e.key = p_id
             THEN UpsertedAll(Patched(rows, (CHOOSE e \in SeqToSet(idx) : e.key = p_id).row.id,
                                      payload),
                              n_id, Tail(desired), idx, fields)
             ELSE UpsertedAll(Append(rows, CreatedRow(n_id, payload)), n_id + 1,
                              Tail(desired), idx, fields)

SyncedRows(rows, n_id, desired, fields) ==
    LET idx == BuildIndex(<<>>, rows)
        after == UpsertedAll(rows, n_id, desired, idx, fields)
        gone == {e.row.id : e \in {x \in SeqToSet(idx) :
                                     x.key \notin {Str(r.id) : r \in SeqToSet(desired)}}}
    IN  SelectSeq(after, LAMBDA r : r.id \notin gone)

\* the end state of a cycle that does not depend on the order of the labels:
\* a label some row names, whose table is there with a tracker field and is
\* served, has its table synchronised; every other table is as it was
C15_EndState(l) ==
    IF DesiredRows(l) # <<>> /\ schema[l] = "ok"
    THEN SyncedRows(tgt0[l], Len(tgt0[l]) + 1, DesiredRows(l), target_fields(l))
    ELSE tgt0[l]

\* C15: when the cycle is over, returned or raised, every target table is in
\* the state that the source table, the target tables and the schemas
\* determine, whatever the order the labels were taken in.
C15_OrderIndependence ==
    (pc = "raised" \/ CycleEnd) => \A l \in Labels : tgt[l] = C15_EndState(l)

OneRowPerTracker(tables) ==
    \A l \in Labels : \A m, n \in DOMAIN tables[l] :
        (tables[l][m].origin = tables[l][n].origin /\ tables[l][m].origin \notin {None, ""})
            => m = n

\* C16: if no partition table had two rows with the same tracker value when
\* the cycle started, none has two such rows during or after the cycle.
C16_TrackerUniqueness == OneRowPerTracker(tgt0) => OneRowPerTracker(tgt)

\* C17: a cycle that follows a cycle cut short after a write was applied,
\* with the source as it was and every request succeeding, ends with every
\* partition table it visited as one failure-free cycle would have left it
\* from the state the aborted cycle started in.
C17_Recovery ==
    (CycleEnd /\ AllOk /\ aborted.tag = "aborted")
        => \A l \in Labels :
              (DesiredRows(l) # <<>> /\ schema[l] = "ok")
                  => tgt[l] = SyncedRows(aborted.tgt[l], aborted.nextId[l],
                                         DesiredRows(l), target_fields(l))

Untracked(rows) == {n \in DOMAIN rows : rows[n].origin \in {None, ""}}

\* C18: a row that was in a partition table with an absent or empty tracker
\* cell when the cycle started is the target of no update and no delete of
\* the cycle, and is in the table as it was.
C18_UntrackedRows ==
    \A l \in Labels : \A m \in Untracked(tgt0[l]) :
        /\ \A n \in DOMAIN ops :
              (ops[n].table = l /\ ops[n].op \in {"PATCH", "DELETE"})
                  => ops[n].rid # tgt0[l][m].id
        /\ \E n \in DOMAIN tgt[l] : tgt[l][n] = tgt0[l][m]

C18_Witness ==
    /\ CycleEnd
    /\ \A l \in Labels :
          /\ Untracked(tgt0[l]) # {}
          /\ \E n \in DOMAIN ops :
                ops[n].table = l /\ ops[n].op \in {"PATCH", "DELETE"} /\ ops[n].ok
    /\ \E n \in DOMAIN ops : ops[n].op = "DELETE" /\ ops[n].ok

\* C19: no create, update or delete of any cycle is addressed to the source
\* table, whatever the prefix and the labels are.
C19_SourceReadOnly ==
    \A n \in DOMAIN ops :
        ops[n].op \in {"POST", "PATCH", "DELETE"} => ops[n].table # PRIMARY_TABLE_ID
====
